---- MODULE Spec2Model ----
(***************************************************************************)
(* Model of app.py, the store-location geocoder: ingestion and field       *)
(* normalisation (preprocess_locations), ID assignment (assign_ids) and    *)
(* the per-record enrichment loop (process_locations,                      *)
(* update_location_info, find_place, get_place_details).                   *)
(*                                                                         *)
(* Python values are modelled as records [t, s, n]:                        *)
(*   t = "str"   : a string, s its sequence of characters                  *)
(*   t = "float" : a float, n its value in units of 10^-11 degree          *)
(*   t = "num"   : a JSON number (a non-string scalar), n its value        *)
(* A dict (OrderedDict, JSON object) is a sequence of [k, v] pairs in      *)
(* insertion order.                                                        *)
(***************************************************************************)
EXTENDS Integers, Sequences, FiniteSets, TLC

VARIABLES
    pc,                 \* position of main(): await, parsed, loaded, processing, done, ...
    locations,          \* main's `locations` (records are mutated in place)
    updated_locations,  \* process_locations' result list
    idx,                \* process_locations' loop index (0-based count of finished records)
    step,               \* position inside update_location_info
    place,              \* update_location_info's local `place`
    download,           \* the download artifact (output_json), once produced
    uploaded,           \* what json.load returned for the uploaded file
    log,                \* history: remote calls and sleeps, in order
    hist,               \* history: the outcome of each remote call, per record
    before              \* history: the records as they were when enrichment started

vars == <<pc, locations, updated_locations, idx, step, place, download, uploaded, log, hist, before>>

\* ------------------------------------------------------------------ bounds

\* longest id string drawn for a batch of assign_ids
MaxIdLen == 2
\* largest batch drawn for assign_ids
MaxIdBatch == 2
\* largest uploaded list of records run through the whole pipeline
MaxBatch == 2
\* longest address_components list of a place-details response
MaxComponents == 2
\* most keys of an uploaded object whose keys are drawn in every order
MaxShapeKeys == 2

\* ------------------------------------------------------------------ values

Str(s) == [t |-> "str", s |-> s, n |-> 0]

Float(n) == [t |-> "float", s |-> << >>, n |-> n]

Num(n) == [t |-> "num", s |-> << >>, n |-> n]

\* the empty string ''
EMPTY == Str(<< >>)

\* Python truthiness: '' and 0 / 0.0 are false
Truthy(v) == IF v.t = "str" THEN v.s # << >> ELSE v.n # 0

\* a or b
PyOr(a, b) == IF Truthy(a) THEN a ELSE b

Digits == <<"0", "1", "2", "3", "4", "5", "6", "7", "8", "9">>

DigitChars == {Digits[i] : i \in 1..10}

\* "sup2" stands for the character U+00B2 (superscript two): str.isdigit()
\* accepts it and int() rejects it
IsDigitChars == DigitChars \cup {"sup2"}

DigitVal(c) == CHOOSE d \in 0..9 : Digits[d + 1] = c

\* str.isdigit(): non-empty and every character a digit
IsDigit(s) == s # << >> /\ \A i \in 1..Len(s) : s[i] \in IsDigitChars

\* whether int(s) succeeds on a string that passed isdigit()
IntParses(s) == \A i \in 1..Len(s) : s[i] \in DigitChars

RECURSIVE StrToInt(_)
\* int(s) for a decimal digit string (leading zeros allowed)
StrToInt(s) ==
    IF s = << >> THEN 0
    ELSE 10 * StrToInt(SubSeq(s, 1, Len(s) - 1)) + DigitVal(s[Len(s)])

RECURSIVE IntToStr(_)
\* str(n) for n >= 0
IntToStr(n) ==
    IF n < 10 THEN <<Digits[n + 1]>>
    ELSE IntToStr(n \div 10) \o <<Digits[(n % 10) + 1]>>

\* round(x, 10) of a float held in units of 10^-11: the nearest multiple of
\* 10 units, a tie going to the even one
Round10(n) ==
    LET r == n % 10
        lo == n - r
    IN  IF r < 5 THEN lo
        ELSE IF r > 5 THEN lo + 10
        ELSE IF (lo \div 10) % 2 = 0 THEN lo ELSE lo + 10

\* str(v): a string is returned as it is, a number becomes its decimal text
PyStr(v) ==
    IF v.t = "str" THEN v
    ELSE IF v.n < 0 THEN Str(<<"-">> \o IntToStr(0 - v.n))
    ELSE Str(IntToStr(v.n))

RECURSIVE Join(_, _)
\* sep.join(parts) for a list of strings (character sequences)
Join(sep, parts) ==
    IF parts = << >> THEN << >>
    ELSE IF Len(parts) = 1 THEN parts[1]
    ELSE parts[1] \o sep \o Join(sep, Tail(parts))

\* filter(None, parts): the non-empty strings, in order
FilterNone(parts) == SelectSeq(parts, LAMBDA p : p # << >>)

\* ------------------------------------------------------------------ dicts

Keys(d) == [i \in 1..Len(d) |-> d[i].k]

HasKey(d, k) == \E i \in 1..Len(d) : d[i].k = k

\* d.get(k, default)
DictGet(d, k, default) ==
    IF HasKey(d, k) THEN d[CHOOSE i \in 1..Len(d) : d[i].k = k].v ELSE default

\* d[k] = v: in place when the key exists, appended otherwise
DictSet(d, k, v) ==
    IF HasKey(d, k)
    THEN [i \in 1..Len(d) |-> IF d[i].k = k THEN [k |-> k, v |-> v] ELSE d[i]]
    ELSE Append(d, [k |-> k, v |-> v])

EXPECTED_FIELDS ==
    << "id", "name", "lat", "lng", "category", "address", "address2",
       "city", "state", "postal", "phone", "web", "hours1", "hours2",
       "hours3", "featured", "features", "date" >>

\* the record passed through with the fields it came with
Reordered_as_given(d) == d

\* an OrderedDict filled field by field from EXPECTED_FIELDS with d.get(field, '')
Reordered(d) ==
    [i \in 1..Len(EXPECTED_FIELDS) |->
        [k |-> EXPECTED_FIELDS[i], v |-> DictGet(d, EXPECTED_FIELDS[i], EMPTY)]]

\* ------------------------------------------------------------------ ingestion

\* What json.load returns is modelled as [kind, items]:
\*   kind "list": items are the elements; "dict": items are the keys (what
\*   iterating a dict yields); "str": items are the characters; "num": a
\*   scalar, not iterable.  An item is [kind, pairs]: kind "obj" with its
\*   key/value pairs, or a non-object ("str", "num", "list").
Iterable(data) == data.kind \in {"list", "dict", "str"}

\* preprocess_locations: [raised, val]; raised when the data cannot be
\* iterated (TypeError) or an element has no .get (AttributeError)
preprocess_locations(data) ==
    IF ~Iterable(data) \/ \E i \in 1..Len(data.items) : data.items[i].kind # "obj"
    THEN [raised |-> TRUE, val |-> << >>]
    ELSE [raised |-> FALSE,
          val |-> [i \in 1..Len(data.items) |-> Reordered(data.items[i].pairs)]]

\* ------------------------------------------------------------------ assign_ids

IdOf(location) == DictGet(location, "id", EMPTY)

\* the test `id_str.isdigit()` / `location.get('id', '').isdigit()`
HasDigitId(location) == IsDigit(IdOf(location).s)

RECURSIVE MaxId(_)
\* first pass: max_id over the records whose id passes isdigit()
MaxId(locs) ==
    IF locs = << >> THEN 0
    ELSE LET rest == MaxId(SubSeq(locs, 1, Len(locs) - 1))
             last == locs[Len(locs)]
         IN  IF HasDigitId(last)
             THEN (IF StrToInt(IdOf(last).s) > rest THEN StrToInt(IdOf(last).s) ELSE rest)
             ELSE rest

RECURSIVE AssignFrom(_, _)
\* second pass: the records without a digit id get next_id, next_id + 1, ...
AssignFrom(locs, next_id) ==
    IF locs = << >> THEN << >>
    ELSE IF HasDigitId(Head(locs))
         THEN <<Head(locs)>> \o AssignFrom(Tail(locs), next_id)
         ELSE <<DictSet(Head(locs), "id", Str(IntToStr(next_id)))>>
              \o AssignFrom(Tail(locs), next_id + 1)

\* assign_ids raises when an id is not a string (AttributeError on .isdigit)
\* or passes isdigit() and is rejected by int() (ValueError)
AssignIdsRaises(locs) ==
    \E i \in 1..Len(locs) :
        \/ IdOf(locs[i]).t # "str"
        \/ IsDigit(IdOf(locs[i]).s) /\ ~IntParses(IdOf(locs[i]).s)

\* assign_ids starting the new ids at max_id instead of max_id + 1
assign_ids_from_max(locs) ==
    IF AssignIdsRaises(locs)
    THEN [raised |-> TRUE, val |-> locs]
    ELSE [raised |-> FALSE, val |-> AssignFrom(locs, MaxId(locs))]

\* assign_ids: [raised, val], val the batch after the in-place assignment
assign_ids(locs) ==
    IF AssignIdsRaises(locs)
    THEN [raised |-> TRUE, val |-> locs]
    ELSE [raised |-> FALSE, val |-> AssignFrom(locs, MaxId(locs) + 1)]

\* ------------------------------------------------------------------ remote calls

\* gmaps.geocode: what the call does.  kind "result": a non-empty list whose
\* first entry holds geometry.location (lat, lng); "empty": an empty list;
\* "malformed": a non-empty list without geometry; "api_error": ApiError,
\* TransportError or Timeout raised by the call; "unexpected": any other
\* exception raised by the call.
GeocodeOutcome(kind, lat, lng) == [kind |-> kind, lat |-> lat, lng |-> lng]

\* gmaps.find_place: "candidates" (the first candidate's place_id, '' when
\* it carries none), "none" (no candidates), "api_error", "unexpected"
FindOutcome(kind, place_id) == [kind |-> kind, place_id |-> place_id]

\* one entry of address_components
Component(types, long_name, short_name) ==
    [types |-> types, long_name |-> long_name, short_name |-> short_name]

\* opening_hours: has |-> whether it holds weekday_text, is_list |-> whether
\* that value is a list, lines |-> the list
OpeningHours(has, is_list, lines) == [has |-> has, is_list |-> is_list, lines |-> lines]

NoHours == OpeningHours(FALSE, FALSE, << >>)

\* the 'result' dict of a place-details response: keys |-> the keys it holds
Details(keys, comps, phone, web, hours) ==
    [keys |-> keys, address_components |-> comps,
     formatted_phone_number |-> phone, website |-> web, opening_hours |-> hours]

\* the empty dict {}
NoDetails == Details({}, << >>, EMPTY, EMPTY, NoHours)

\* gmaps.place: "result" (the response holds 'result'), "no_result" (it
\* does not), "api_error", "unexpected"
DetailsOutcome(kind, details) == [kind |-> kind, details |-> details]

ErrorKinds == {"api_error", "unexpected"}

\* None
NoPlace == [some |-> FALSE, place_id |-> << >>]

\* find_place answering a failed or empty lookup with a candidate
find_place_stale(f) ==
    [raised |-> FALSE,
     val |-> [some |-> TRUE,
              place_id |-> IF f.kind = "candidates" THEN f.place_id ELSE <<"p0">>]]

\* find_place's return value: candidates[0], or None; every exception of the
\* call is caught inside find_place (lines 246-251)
find_place(f) ==
    IF f.kind = "candidates"
    THEN [raised |-> FALSE, val |-> [some |-> TRUE, place_id |-> f.place_id]]
    ELSE [raised |-> FALSE, val |-> NoPlace]

\* whether get_place_details sleeps: line 261 is reached only when
\* gmaps.place returned
DetailsSleeps(d) == d.kind \notin ErrorKinds

\* get_place_details without its second except clause
get_place_details_uncaught(d) ==
    IF d.kind = "result"
    THEN [raised |-> FALSE, val |-> d.details]
    ELSE [raised |-> d.kind = "unexpected", val |-> NoDetails]

\* get_place_details' return value: place_details.get('result', {}), or {}
\* from either except clause
get_place_details(d) ==
    IF d.kind = "result"
    THEN [raised |-> FALSE, val |-> d.details]
    ELSE [raised |-> FALSE, val |-> NoDetails]

\* ------------------------------------------------------------------ update_location_info

\* the geocode test with `and` in place of `or`
NeedsGeocode_both(location) ==
    /\ ~Truthy(DictGet(location, "lat", EMPTY))
    /\ ~Truthy(DictGet(location, "lng", EMPTY))

\* line 135: not location.get('lat') or not location.get('lng')
NeedsGeocode(location) ==
    \/ ~Truthy(DictGet(location, "lat", EMPTY))
    \/ ~Truthy(DictGet(location, "lng", EMPTY))

\* whether the geocode step sleeps: line 139 follows the call inside the try
GeocodeSleeps(g) == g.kind \notin ErrorKinds

\* lines 141-157: the record after the geocode step; [raised, val]
GeocodeStore(location, g) ==
    IF g.kind = "result"
    THEN [raised |-> FALSE,
          val |-> DictSet(DictSet(location, "lat", Float(Round10(g.lat))),
                          "lng", Float(Round10(g.lng)))]
    ELSE [raised |-> FALSE, val |-> location]

RECURSIVE Extract(_, _)
\* lines 171-187: the loop over address_components, acc the five locals
Extract(comps, acc) ==
    IF comps = << >> THEN acc
    ELSE LET c == Head(comps)
             nxt == IF "street_number" \in c.types
                        THEN [acc EXCEPT !.street_number = c.long_name]
                    ELSE IF "route" \in c.types
                        THEN [acc EXCEPT !.route = c.long_name]
                    ELSE IF "locality" \in c.types
                        THEN [acc EXCEPT !.city = c.long_name]
                    ELSE IF "administrative_area_level_1" \in c.types
                        THEN [acc EXCEPT !.state = c.short_name]
                    ELSE IF "postal_code" \in c.types
                        THEN [acc EXCEPT !.postal = c.long_name]
                    ELSE acc
         IN  Extract(Tail(comps), nxt)

\* the values extracted from the details' address components (lines 170-190)
Extracted(details) ==
    LET acc == Extract(details.address_components,
                       [street_number |-> << >>, route |-> << >>, city |-> << >>,
                        state |-> << >>, postal |-> << >>])
    IN  [address |-> Join(<<" ">>, FilterNone(<<acc.street_number, acc.route>>)),
         city |-> acc.city, state |-> acc.state, postal |-> acc.postal]

\* the extracted value stored whether or not it is empty
MergeField_always(location, field, extracted) ==
    DictSet(location, field, Str(extracted))

\* location[field] = extracted or location.get(field, '')
MergeField(location, field, extracted) ==
    DictSet(location, field, PyOr(Str(extracted), DictGet(location, field, EMPTY)))

\* lines 191-194, e the extracted values
MergeExtracted(location, e) ==
    MergeField(MergeField(MergeField(MergeField(location,
        "address", e.address), "city", e.city), "state", e.state), "postal", e.postal)

\* lines 169-194: the address part of the merge
MergeAddress(location, details) == MergeExtracted(location, Extracted(details))

\* location[field] = details.get(key, location.get(field, ''))
MergeKey(location, field, has, value) ==
    DictSet(location, field, IF has THEN value ELSE DictGet(location, field, EMPTY))

\* lines 197 and 200: phone and website
MergeContact(location, details) ==
    MergeKey(MergeKey(location,
        "phone", "formatted_phone_number" \in details.keys, details.formatted_phone_number),
        "web", "website" \in details.keys, details.website)

\* lines 203-204: details.get('opening_hours', {}).get('weekday_text', []) as
\* [is_list, lines]
WeekdayText(details) ==
    IF "opening_hours" \in details.keys /\ details.opening_hours.has
    THEN [is_list |-> details.opening_hours.is_list, lines |-> details.opening_hours.lines]
    ELSE [is_list |-> TRUE, lines |-> << >>]

\* lines 205-208, wt the weekday_text
MergeWeekdayText(location, wt) ==
    IF wt.is_list
    THEN DictSet(location, "hours1", Str(Join(<<"\n">>, wt.lines)))
    ELSE DictSet(location, "hours1", DictGet(location, "hours1", EMPTY))

\* lines 203-208: weekday_text defaults to [] and is joined when it is a list
MergeHours(location, details) == MergeWeekdayText(location, WeekdayText(details))

\* `if details:` a non-empty dict
DetailsTruthy(details) == details.keys # {}

\* lines 168-210: the field merge
Merge(location, details) ==
    IF DetailsTruthy(details)
    THEN MergeHours(MergeContact(MergeAddress(location, details), details), details)
    ELSE location

\* location[field] = str(location.get(field, ''))
CoerceField(location, field) == DictSet(location, field, PyStr(DictGet(location, field, EMPTY)))

\* lines 223-224: featured defaulted to 'no'
DefaultFeatured(location) ==
    IF ~Truthy(DictGet(location, "featured", EMPTY))
    THEN DictSet(location, "featured", Str(<<"no">>))
    ELSE location

\* lines 218-224: lat and lng as strings, featured defaulted to 'no'
Coerced(location) == DefaultFeatured(CoerceField(CoerceField(location, "lat"), "lng"))

\* lines 226-230: the OrderedDict update_location_info returns
Ordered(location) == Reordered(location)

\* ------------------------------------------------------------------ inputs

P(k, v) == [k |-> k, v |-> v]

Obj(pairs) == [kind |-> "obj", pairs |-> pairs]

NonObj(kind) == [kind |-> kind, pairs |-> << >>]

Data(kind, items) == [kind |-> kind, items |-> items]

\* a file that is not JSON: json.load raises JSONDecodeError
NotJson == Data("notjson", << >>)

\* no file uploaded yet: uploaded_file is None
NoUpload == Data("none", << >>)

\* sequences over S of length 0..n
RECURSIVE SeqsUpTo(_, _)
SeqsUpTo(S, n) ==
    IF n = 0 THEN {<< >>}
    ELSE LET shorter == SeqsUpTo(S, n - 1)
         IN  shorter \cup {Append(s, x) : s \in shorter, x \in S}

\* a record with coordinates and every enriched field already filled
RawFull ==
    Obj(<< P("id", Str(<<"5">>)), P("name", Str(<<"Acme">>)),
           P("lat", Str(<<"30.1">>)), P("lng", Str(<<"-97.7">>)),
           P("address", Str(<<"1 Old Rd">>)), P("city", Str(<<"Dallas">>)),
           P("state", Str(<<"OK">>)), P("postal", Str(<<"75001">>)),
           P("phone", Str(<<"555-0100">>)), P("web", Str(<<"old.example">>)),
           P("hours1", Str(<<"Mon 9-5">>)), P("featured", Str(<<"yes">>)) >>)

\* a sparse record: fields out of order, one unknown field, no id, no coordinates
RawSparse ==
    Obj(<< P("state", Str(<<"TX">>)), P("zzz", Str(<<"x">>)), P("name", Str(<<"Bolt">>)) >>)

\* a record whose id is a JSON number
RawNumId == Obj(<< P("id", Num(7)), P("name", Str(<<"Num">>)) >>)

RawRecords == {RawFull, RawSparse}

\* the uploads that are not a list of objects
MalformedUploads ==
    { NotJson,
      Data("num", << >>),
      Data("dict", << >>),
      Data("dict", <<NonObj("str")>>),
      Data("str", << >>),
      Data("str", <<NonObj("str")>>),
      Data("list", <<NonObj("str")>>),
      Data("list", <<RawFull, NonObj("num")>>) }

\* the uploads of the pipeline: malformed ones, and lists of up to MaxBatch records
Uploads ==
    MalformedUploads
    \cup {Data("list", <<RawNumId>>)}
    \cup {Data("list", s) : s \in SeqsUpTo(RawRecords, MaxBatch)}

\* whether an upload is malformed: not parseable, or not a list of objects
Malformed(u) ==
    \/ u.kind # "list"
    \/ \E i \in 1..Len(u.items) : u.items[i].kind # "obj"

GeocodeOutcomes ==
    { GeocodeOutcome("result", 125, -36),
      GeocodeOutcome("empty", 0, 0),
      GeocodeOutcome("api_error", 0, 0),
      GeocodeOutcome("unexpected", 0, 0) }

FindOutcomes ==
    { FindOutcome("candidates", <<"p1">>),
      FindOutcome("none", << >>),
      FindOutcome("api_error", << >>),
      FindOutcome("unexpected", << >>) }

\* a candidate without a place_id
RecordFindOutcomes == FindOutcomes \cup {FindOutcome("candidates", << >>)}

StreetNumber == Component({"street_number"}, <<"12">>, <<"12">>)

Route == Component({"route"}, <<"Main St">>, <<"Main St">>)

Locality == Component({"locality", "political"}, <<"Austin">>, <<"Austin">>)

Admin1 == Component({"administrative_area_level_1", "political"}, <<"Texas">>, <<"TX">>)

PostalCode == Component({"postal_code"}, <<"78701">>, <<"78701">>)

Country == Component({"country", "political"}, <<"United States">>, <<"US">>)

\* a locality without a long_name: component.get('long_name', '') is ''
BlankLocality == Component({"locality"}, << >>, << >>)

ComponentSamples == {StreetNumber, Route, Locality, Admin1, PostalCode, Country, BlankLocality}

WeekHours == OpeningHours(TRUE, TRUE, <<<<"Mon: 9-5">>, <<"Tue: 9-5">>>>)

AllDetailKeys ==
    {"formatted_address", "address_components", "formatted_phone_number",
     "website", "opening_hours"}

\* details with every requested field
FullDetails ==
    Details(AllDetailKeys, <<StreetNumber, Route, Locality, Admin1, PostalCode>>,
            Str(<<"555-0199">>), Str(<<"new.example">>), WeekHours)

\* details that hold a formatted address and nothing else
BareDetails == Details({"formatted_address"}, << >>, EMPTY, EMPTY, NoHours)

DetailsOutcomes ==
    { DetailsOutcome("result", FullDetails),
      DetailsOutcome("no_result", NoDetails),
      DetailsOutcome("api_error", NoDetails),
      DetailsOutcome("unexpected", NoDetails) }

\* ------------------------------------------------------------------ state machine

NoDownload == [produced |-> FALSE, data |-> << >>]

\* json.dumps(updated_locations, indent=4) handed to st.download_button
Downloaded(records) == [produced |-> TRUE, data |-> records]

NotCalled == [geo |-> "not_called", find |-> "not_called", det |-> "not_called",
              details |-> NoDetails]

Ev(i, e) == [rec |-> i, ev |-> e]

\* where update_location_info starts on a record
StartStep(location) == IF NeedsGeocode(location) THEN "geocode" ELSE "find"

Init ==
    /\ pc = "await"
    /\ locations = << >>
    /\ updated_locations = << >>
    /\ idx = 0
    /\ step = "idle"
    /\ place = NoPlace
    /\ download = NoDownload
    /\ uploaded = NoUpload
    /\ log = << >>
    /\ hist = << >>
    /\ before = << >>

\* main, lines 43-51 and 66-67: a file is uploaded, parsed, normalised and
\* given ids.  "parse_error": JSONDecodeError caught and shown; "crashed":
\* any other exception, which ends the script run
Main(u) ==
    /\ pc = "await"
    /\ uploaded' = u
    /\ LET pre == preprocess_locations(u)
           ids == assign_ids(pre.val)
       IN  IF u.kind = "notjson"
           THEN pc' = "parse_error" /\ locations' = locations
           ELSE IF pre.raised
           THEN pc' = "crashed" /\ locations' = locations
           ELSE IF ids.raised
           THEN pc' = "crashed" /\ locations' = ids.val
           ELSE pc' = "loaded" /\ locations' = ids.val
    /\ UNCHANGED <<updated_locations, idx, step, place, download, log, hist, before>>

\* main, lines 54-65, and process_locations up to its first remote call: the
\* button is pressed; an empty list goes straight to the download
ClickUpdate ==
    /\ pc = "loaded"
    /\ updated_locations' = << >>
    /\ idx' = 0
    /\ before' = locations
    /\ hist' = [i \in 1..Len(locations) |-> NotCalled]
    /\ IF locations = << >>
       THEN pc' = "done" /\ step' = "idle" /\ download' = Downloaded(<< >>)
       ELSE pc' = "processing" /\ step' = StartStep(locations[1]) /\ download' = download
    /\ UNCHANGED <<locations, place, uploaded, log>>

\* an exception leaves update_location_info: process_locations and main end
Escapes(lg, h) ==
    /\ pc' = "failed"
    /\ log' = lg
    /\ hist' = h
    /\ UNCHANGED <<locations, updated_locations, idx, step, place, download, uploaded, before>>

\* lines 218-230 of update_location_info and lines 114-121 of
\* process_locations: the record is coerced, re-ordered, appended, the loop
\* sleeps and goes on to the next record or returns; main then offers the
\* download (lines 56-65)
EndRecord(i, loc, lg, h) ==
    LET final == Coerced(loc)
        out == Append(updated_locations, Ordered(final))
    IN  /\ locations' = [locations EXCEPT ![i] = final]
        /\ updated_locations' = out
        /\ idx' = i
        /\ place' = NoPlace
        /\ log' = Append(lg, Ev(i, "sleep"))
        /\ hist' = h
        /\ IF i = Len(locations)
           THEN pc' = "done" /\ step' = "idle" /\ download' = Downloaded(out)
           ELSE pc' = pc /\ step' = StartStep(locations[i + 1]) /\ download' = download
        /\ UNCHANGED <<uploaded, before>>

\* lines 135-157: the geocode call and what follows it
Geocode(g) ==
    /\ pc = "processing"
    /\ step = "geocode"
    /\ LET i == idx + 1
           r == GeocodeStore(locations[i], g)
           lg == log \o <<Ev(i, "geocode")>>
                     \o (IF GeocodeSleeps(g) THEN <<Ev(i, "sleep")>> ELSE << >>)
           h == [hist EXCEPT ![i].geo = g.kind]
       IN  IF r.raised
           THEN Escapes(lg, h)
           ELSE /\ locations' = [locations EXCEPT ![i] = r.val]
                /\ step' = "find"
                /\ log' = lg
                /\ hist' = h
                /\ UNCHANGED <<pc, updated_locations, idx, place, download, uploaded, before>>

\* lines 160-165 and 213-216: the find-place call, the sleep after it, and
\* the rest of the record when there is no place to look up
FindPlace(f) ==
    /\ pc = "processing"
    /\ step = "find"
    /\ LET i == idx + 1
           r == find_place(f)
           called == Append(log, Ev(i, "find_place"))
           lg == Append(called, Ev(i, "sleep"))
           h == [hist EXCEPT ![i].find = f.kind]
       IN  IF r.raised
           THEN Escapes(called, h)
           ELSE IF r.val.some /\ r.val.place_id # << >>
           THEN /\ place' = r.val
                /\ step' = "details"
                /\ log' = lg
                /\ hist' = h
                /\ UNCHANGED <<pc, locations, updated_locations, idx, download, uploaded, before>>
           ELSE EndRecord(i, locations[i], lg, h)

\* lines 167-212: the place-details call, the field merge and the rest of the record
PlaceDetails(d) ==
    /\ pc = "processing"
    /\ step = "details"
    /\ LET i == idx + 1
           r == get_place_details(d)
           lg == log \o <<Ev(i, "place")>>
                     \o (IF DetailsSleeps(d) THEN <<Ev(i, "sleep")>> ELSE << >>)
           h == [hist EXCEPT ![i].det = d.kind, ![i].details = r.val]
       IN  IF r.raised
           THEN Escapes(lg, h)
           ELSE EndRecord(i, Merge(locations[i], r.val), lg, h)

Next ==
    \/ \E u \in Uploads : Main(u)
    \/ ClickUpdate
    \/ \E g \in GeocodeOutcomes : Geocode(g)
    \/ \E f \in FindOutcomes : FindPlace(f)
    \/ \E d \in DetailsOutcomes : PlaceDetails(d)

Spec == Init /\ [][Next]_vars

\* ------------------------------------------------------------------ assign_ids on its own

\* the characters ids are drawn from: a digit and a letter
IdChars == {"5", "a"}

\* the ids of a batch: strings of up to MaxIdLen characters, ids with a
\* zero or a nine, a superscript digit, and a JSON number
IdValues ==
    {Str(s) : s \in SeqsUpTo(IdChars, MaxIdLen)}
    \cup {Str(<<"0">>), Str(<<"0", "5">>), Str(<<"9">>), Str(<<"sup2">>), Num(5)}

\* uploaded objects that differ in their id, one of them without any
IdRaws ==
    {Obj(<<P("name", Str(<<"n">>)), P("id", v)>>) : v \in IdValues}
    \cup {Obj(<<P("name", Str(<<"n">>))>>)}

IdUploads == {Data("list", s) : s \in SeqsUpTo(IdRaws, MaxIdBatch)}

\* main after line 47: the upload is parsed and normalised
InitIds ==
    /\ pc = "parsed"
    /\ uploaded \in IdUploads
    /\ locations = preprocess_locations(uploaded).val
    /\ updated_locations = << >>
    /\ idx = 0
    /\ step = "idle"
    /\ place = NoPlace
    /\ download = NoDownload
    /\ log = << >>
    /\ hist = << >>
    /\ before = << >>

\* main, line 51: assign_ids(locations)
AssignIds ==
    /\ pc = "parsed"
    /\ LET r == assign_ids(locations)
       IN  /\ pc' = IF r.raised THEN "crashed" ELSE "loaded"
           /\ locations' = r.val
    /\ before' = locations
    /\ UNCHANGED <<updated_locations, idx, step, place, download, uploaded, log, hist>>

NextIds == AssignIds

SpecIds == InitIds /\ [][NextIds]_vars

\* ------------------------------------------------------------------ one record, many responses

\* [has, v]: a key of a dict that may be absent
Opt(has, v) == [has |-> has, v |-> v]

CoordVariants ==
    { <<Str(<<"30.1">>), Str(<<"-97.7">>)>>, <<EMPTY, Str(<<"-97.7">>)>>,
      <<Str(<<"30.1">>), EMPTY>>, <<EMPTY, EMPTY>> }

\* address, city, state, postal, phone, web, hours1 before enrichment:
\* all empty, all filled, some filled
PriorVariants ==
    { <<EMPTY, EMPTY, EMPTY, EMPTY, EMPTY, EMPTY, EMPTY>>,
      <<Str(<<"1 Old Rd">>), Str(<<"Dallas">>), Str(<<"OK">>), Str(<<"75001">>),
        Str(<<"555-0100">>), Str(<<"old.example">>), Str(<<"Mon 9-5">>)>>,
      <<Str(<<"1 Old Rd">>), EMPTY, Str(<<"OK">>), EMPTY,
        EMPTY, Str(<<"old.example">>), EMPTY>> }

RawWith(c, a) ==
    Obj(<< P("id", Str(<<"5">>)), P("name", Str(<<"Acme">>)),
           P("lat", c[1]), P("lng", c[2]),
           P("address", a[1]), P("city", a[2]), P("state", a[3]), P("postal", a[4]),
           P("phone", a[5]), P("web", a[6]), P("hours1", a[7]) >>)

ValueRaws == {RawWith(c, a) : c \in CoordVariants, a \in PriorVariants}

\* two canonical fields and one unknown field
ShapeKeys == {"name", "zzz", "city"}

\* objects holding any of ShapeKeys, up to MaxShapeKeys of them, in any order
ShapeRaws ==
    { Obj([i \in 1..Len(ks) |-> P(ks[i], Str(<<"v">>))]) :
        ks \in {s \in SeqsUpTo(ShapeKeys, MaxShapeKeys) :
                  \A i, j \in 1..Len(s) : s[i] = s[j] => i = j} }

RecordUploads == {Data("list", <<r>>) : r \in ValueRaws \cup ShapeRaws}

\* details that differ in their address components
ComponentDetails ==
    { Details({"formatted_address", "address_components"}, cs, EMPTY, EMPTY, NoHours) :
        cs \in SeqsUpTo(ComponentSamples, MaxComponents) }

PhoneOptions == {Opt(FALSE, EMPTY), Opt(TRUE, EMPTY), Opt(TRUE, Str(<<"555-0199">>))}

WebOptions == {Opt(FALSE, EMPTY), Opt(TRUE, EMPTY), Opt(TRUE, Str(<<"new.example">>))}

\* opening_hours: absent; without weekday_text; an empty list; two lines;
\* a weekday_text that is no list
HoursOptions ==
    { Opt(FALSE, NoHours), Opt(TRUE, NoHours), Opt(TRUE, OpeningHours(TRUE, TRUE, << >>)),
      Opt(TRUE, WeekHours), Opt(TRUE, OpeningHours(TRUE, FALSE, << >>)) }

\* the keys of details with the given optional fields
DetailKeys(p, w, h) ==
    {"formatted_address"}
        \cup (IF p.has THEN {"formatted_phone_number"} ELSE {})
        \cup (IF w.has THEN {"website"} ELSE {})
        \cup (IF h.has THEN {"opening_hours"} ELSE {})

\* details that differ in phone and website, and details that differ in
\* their opening hours
ContactDetails ==
    { Details(DetailKeys(p, w, Opt(FALSE, NoHours)), << >>, p.v, w.v, NoHours) :
        p \in PhoneOptions, w \in WebOptions }
    \cup
    { Details(DetailKeys(Opt(FALSE, EMPTY), Opt(FALSE, EMPTY), h), << >>, EMPTY, EMPTY, h.v) :
        h \in HoursOptions }

RecordDetailsOutcomes ==
    DetailsOutcomes
    \cup {DetailsOutcome("result", NoDetails), DetailsOutcome("result", BareDetails)}
    \cup {DetailsOutcome("result", d) : d \in ComponentDetails \cup ContactDetails}

NextRecord ==
    \/ \E u \in RecordUploads : Main(u)
    \/ ClickUpdate
    \/ \E g \in GeocodeOutcomes : Geocode(g)
    \/ \E f \in RecordFindOutcomes : FindPlace(f)
    \/ \E d \in RecordDetailsOutcomes : PlaceDetails(d)

SpecRecord == Init /\ [][NextRecord]_vars

\* ------------------------------------------------------------------ properties

F(d, k) == DictGet(d, k, EMPTY)

\* a non-negative integer string
IsIntString(v) ==
    v.t = "str" /\ v.s # << >> /\ \A i \in 1..Len(v.s) : v.s[i] \in DigitChars

SetMax(S) == CHOOSE m \in S : \A x \in S : x <= m

\* the records whose enrichment is complete
Finished == 1..Len(updated_locations)

\* the positions of an event in the log
Events(i, e) == {k \in 1..Len(log) : log[k] = Ev(i, e)}

\* the field merge ran on record i
Merged(i) ==
    i \in Finished /\ hist[i].det = "result" /\ DetailsTruthy(hist[i].details)

CallEvents == {"geocode", "find_place", "place"}

FailureKinds == {"none", "empty", "no_result", "api_error", "unexpected"}

EnrichedFields == {"address", "city", "state", "postal", "phone", "web", "hours1"}

\* C1: after assign_ids returns, every record has an integer-string id and no
\* two records of the batch hold the same id
C1_UniqueIds ==
    pc = "loaded" =>
        /\ \A i \in 1..Len(locations) : IsIntString(IdOf(locations[i]))
        /\ \A i, j \in 1..Len(locations) :
              IdOf(locations[i]) = IdOf(locations[j]) => i = j

C3_CanonicalFields ==
    /\ pc = "loaded" => \A i \in 1..Len(locations) : Keys(locations[i]) = EXPECTED_FIELDS
    /\ \A i \in Finished : Keys(updated_locations[i]) = EXPECTED_FIELDS

\* an uploaded object that starts with an unknown field and lacks most
\* fields, enriched from place details
C3_Witness ==
    /\ pc = "done"
    /\ Len(uploaded.items) = 1
    /\ Keys(uploaded.items[1].pairs) = <<"zzz", "city">>
    /\ Merged(1)

\* C4: in the field merge, a non-empty extracted address, city, state or
\* postal overwrites the prior value and an empty one leaves it
C4_MergePrecedence ==
    \A i \in Finished :
        Merged(i) =>
            \A f \in {"address", "city", "state", "postal"} :
                LET e == Extracted(hist[i].details)[f]
                IN  IF e # << >>
                    THEN F(updated_locations[i], f) = Str(e)
                    ELSE F(updated_locations[i], f) = F(before[i], f)

\* a merge whose details carry a street but no locality, on a record with a
\* prior address and city
C4_Witness ==
    /\ Merged(1)
    /\ Extracted(hist[1].details).address = <<"12">>
    /\ Extracted(hist[1].details).city = << >>
    /\ F(before[1], "city") = Str(<<"Dallas">>)
    /\ F(updated_locations[1], "city") = Str(<<"Dallas">>)
    /\ F(updated_locations[1], "address") = Str(<<"12">>)

\* C5: when find-place returns no candidates or fails, no place-details call
\* is issued for the record and its enriched fields stay as they were
C5_NoPlaceNoChange ==
    \A i \in 1..Len(hist) :
        hist[i].find \in {"none", "api_error", "unexpected"} =>
            /\ Events(i, "place") = {}
            /\ i \in Finished
            /\ \A f \in EnrichedFields : F(updated_locations[i], f) = F(before[i], f)

\* a failed find-place call on a record whose fields were all filled
C5_Witness ==
    /\ pc = "done"
    /\ hist[1].find = "api_error"
    /\ F(before[1], "phone") = Str(<<"555-0100">>)
    /\ F(updated_locations[1], "phone") = Str(<<"555-0100">>)

\* C6: whatever the remote calls do, no error leaves the per-record
\* processing: process_locations goes on until it returns one output record
\* per input record, in input order, and a failed step leaves its fields at
\* their prior values
C6_NoErrorEscapes ==
    /\ pc # "failed"
    /\ pc = "processing" => idx < Len(locations) /\ step \in {"geocode", "find", "details"}
    /\ pc = "done" =>
          /\ download = Downloaded(updated_locations)
          /\ Len(updated_locations) = Len(before)
          /\ \A i \in Finished :
                /\ F(updated_locations[i], "id") = F(before[i], "id")
                /\ F(updated_locations[i], "name") = F(before[i], "name")
                /\ hist[i].geo \in FailureKinds =>
                      /\ F(updated_locations[i], "lat") = F(before[i], "lat")
                      /\ F(updated_locations[i], "lng") = F(before[i], "lng")
                /\ (hist[i].find \in FailureKinds \/ hist[i].det \in FailureKinds) =>
                      \A f \in EnrichedFields :
                          F(updated_locations[i], f) = F(before[i], f)

\* a batch of two whose first record met an unexpected geocode error and an
\* API error of find-place, and whose second met an unexpected details error
C6_Witness ==
    /\ pc = "done"
    /\ Len(updated_locations) = 2
    /\ hist[1].geo = "unexpected"
    /\ hist[1].find = "api_error"
    /\ hist[2].det = "unexpected"
    /\ F(updated_locations[1], "name") # F(updated_locations[2], "name")

\* C7: a record that starts enrichment with lat and lng gets no geocode call
\* and keeps both values; any other record gets exactly one geocode call,
\* before its find-place call
C7_GeocodeOnlyWhenNeeded ==
    \A i \in 1..Len(before) :
        IF Truthy(F(before[i], "lat")) /\ Truthy(F(before[i], "lng"))
        THEN /\ Events(i, "geocode") = {}
             /\ i \in Finished =>
                   /\ F(updated_locations[i], "lat") = F(before[i], "lat")
                   /\ F(updated_locations[i], "lng") = F(before[i], "lng")
        ELSE /\ Cardinality(Events(i, "geocode")) <= 1
             /\ Events(i, "find_place") # {} =>
                   /\ Cardinality(Events(i, "geocode")) = 1
                   /\ \A g \in Events(i, "geocode"), f \in Events(i, "find_place") : g < f

\* a finished record that had a longitude and no latitude, geocoded once
C7_Witness ==
    /\ pc = "done"
    /\ F(before[1], "lat") = EMPTY
    /\ F(before[1], "lng") = Str(<<"-97.7">>)
    /\ hist[1].geo = "result"
    /\ Cardinality(Events(1, "geocode")) = 1

\* C8: a malformed upload (not a parseable list of objects) aborts the run at
\* ingestion: no remote call is issued and no download is produced
C8_MalformedAborts ==
    (pc # "await" /\ Malformed(uploaded)) =>
        /\ log = << >>
        /\ ~download.produced

\* C9: the merge overwrites phone and web only with a non-empty value of the
\* details and otherwise keeps the prior value; hours1 becomes the joined
\* weekday text only when the details hold a list of weekday text lines and
\* otherwise keeps its prior value
C9_ContactMerge ==
    \A i \in Finished :
        Merged(i) =>
            LET d == hist[i].details
                out == updated_locations[i]
            IN  /\ IF "formatted_phone_number" \in d.keys /\ d.formatted_phone_number # EMPTY
                   THEN F(out, "phone") = d.formatted_phone_number
                   ELSE F(out, "phone") = F(before[i], "phone")
                /\ IF "website" \in d.keys /\ d.website # EMPTY
                   THEN F(out, "web") = d.website
                   ELSE F(out, "web") = F(before[i], "web")
                /\ IF "opening_hours" \in d.keys /\ d.opening_hours.has /\ d.opening_hours.is_list
                   THEN F(out, "hours1") = Str(Join(<<"\n">>, d.opening_hours.lines))
                   ELSE F(out, "hours1") = F(before[i], "hours1")

\* C10: a pause follows every remote call, whatever the call did: no remote
\* call is followed by another remote call without a sleep between them
C10_DelayAfterEveryCall ==
    \A k \in 1..Len(log) :
        (log[k].ev \in CallEvents /\ k < Len(log)) => log[k + 1].ev = "sleep"

====
